---- MODULE Spec2Model ----
(***************************************************************************)
(* A model of librustc_mir/graphviz.rs: the writer of graphviz DOT graphs  *)
(* of MIR control-flow graphs.                                             *)
(*                                                                         *)
(* Text is a sequence of tokens.  A token is either one character of       *)
(* input-derived text ("a", "<", "&", ...) or one literal of a format      *)
(* string of the source, kept whole ("    label=<fn ").  A write!/writeln! *)
(* call is one write on the sink; the sink keeps the writes it received in *)
(* order, so its content is the concatenation of the writes.               *)
(***************************************************************************)
EXTENDS Naturals, Sequences, FiniteSets, TLC

VARIABLES
    tcx,      \* the type context: resolves a NodeId to its path string
    iter,     \* the (NodeId, Mir) pairs write_mir_graphviz iterates over
    w,        \* the sink (W: Write): what it received, and how it fails
    pc,       \* the position of the running function
    gi,       \* number of pairs taken from iter so far (line 21)
    bi,       \* next block of the running loop over all_basic_blocks()
    result,   \* the io::Result the entry point returned, "none" before
    call,     \* the arguments of a direct call of write_node_label
    esc       \* a value under the escaper, and what escape made of it

vars == <<tcx, iter, w, pc, gi, bi, result, call, esc>>

(***************************************************************************)
(* Bounds of the model.                                                    *)
(***************************************************************************)
MaxGraphs == 2
MaxBlocks == 2
MaxSucc == 2
MaxStmts == 2
MaxArgs == 2
MaxVars == 2
MaxTemps == 2
MaxLen == 3
MaxPartial == 1

Min(a, b) == IF a < b THEN a ELSE b

(***************************************************************************)
(* Formatting of the values the source hands to write!.                    *)
(***************************************************************************)
Digits == <<"0", "1", "2", "3", "4", "5", "6", "7", "8", "9">>

\* Display of an unsigned integer ({} of nodeid, block.index(), num_cols).
RECURSIVE Dec(_)
Dec(n) ==
    IF n < 10 THEN <<Digits[n + 1]>>
    ELSE Dec(n \div 10) \o <<Digits[(n % 10) + 1]>>

\* Debug of Lvalue::Arg(i), Lvalue::Var(i), Lvalue::Temp(i): "arg0", "var1", "tmp2".
LvalueDebug(kind, i) == <<kind>> \o Dec(i)

\* format!("{:?}", t) of a statement or a type: the text its Debug prints.
DebugFmt(t) == t.dbg

\* str::replace of one character by a text.
RECURSIVE Replace(_, _, _)
Replace(s, c, r) ==
    IF s = <<>> THEN <<>>
    ELSE (IF Head(s) = c THEN r ELSE <<Head(s)>>) \o Replace(Tail(s), c, r)

\* dot::escape_html: & first, then the quote and the angle brackets.
escape_html(s) ==
    Replace(Replace(Replace(Replace(s,
        "&", <<"&", "a", "m", "p", ";">>),
        "\"", <<"&", "q", "u", "o", "t", ";">>),
        "<", <<"&", "l", "t", ";">>),
        ">", <<"&", "g", "t", ";">>)

\* A plausible slip: the Debug text is emitted as is.
escape_unescaped(t) == DebugFmt(t)

\* fn escape (lines 164-166).
escape(t) == escape_html(DebugFmt(t))

\* A plausible slip: every node gets the same identifier.
node_no_index(block) == <<"bb">>

\* fn node (lines 160-162).
node(block) == <<"bb">> \o Dec(block)

(***************************************************************************)
(* What a function does to the sink, in order: a write!/writeln! of a      *)
(* text, or (a callback only) a return of Err that no write caused.        *)
(***************************************************************************)
Wr(text) == [kind |-> "write", text |-> text]
RetErr == [kind |-> "err", text |-> <<>>]

\* A caller's closure Fn(&mut W) -> io::Result<()>: it writes its rows, then returns.
ClosureOps(f) ==
    [i \in 1..Len(f.rows) |-> Wr(f.rows[i])]
        \o (IF f.ret = "Err" THEN <<RetErr>> ELSE <<>>)

\* |_| Ok(()) (line 99).
NoRows == [rows |-> <<>>, ret |-> "Ok"]

\* mir.basic_block_data(block)
basic_block_data(mir, block) == mir.basic_blocks[block + 1]

\* mir.all_basic_blocks(): the indices 0 .. len-1, in order.
all_basic_blocks(mir) == [i \in 1..Len(mir.basic_blocks) |-> i - 1]

\* tcx.map.path_to_string(nid)
path_to_string(t, nid) == t[nid]

\* The statement rows of a label (lines 75-81).
StatementRows(data) ==
    IF data.statements # <<>>
    THEN <<Wr(<<"<tr><td align=\"left\" balign=\"left\">">>)>>
         \o [i \in 1..Len(data.statements) |->
                Wr(escape(data.statements[i]) \o <<"<br/>">>)]
         \o <<Wr(<<"</td></tr>">>)>>
    ELSE <<>>

\* A plausible slip: the rows of fini are emitted before the terminator row.
write_node_label_fini_first(block, mir, num_cols, init, fini) ==
    LET data == basic_block_data(mir, block) IN
    <<Wr(<<"<table border=\"0\" cellborder=\"1\" cellspacing=\"0\">">>),
      Wr(<<"<tr><td ", "bgcolor=\"gray\" align=\"center\"", " colspan=\"">>
         \o Dec(num_cols) \o <<"\">">> \o Dec(block) \o <<"</td></tr>">>)>>
    \o ClosureOps(init)
    \o StatementRows(data)
    \o ClosureOps(fini)
    \o <<Wr(<<"<tr><td align=\"left\">">>
            \o escape_html(data.terminator.head) \o <<"</td></tr>">>)>>
    \o <<Wr(<<"</table>\n">>)>>

\* pub fn write_node_label (lines 53-93).
write_node_label(block, mir, num_cols, init, fini) ==
    LET data == basic_block_data(mir, block) IN
    <<Wr(<<"<table border=\"0\" cellborder=\"1\" cellspacing=\"0\">">>),
      Wr(<<"<tr><td ", "bgcolor=\"gray\" align=\"center\"", " colspan=\"">>
         \o Dec(num_cols) \o <<"\">">> \o Dec(block) \o <<"</td></tr>">>)>>
    \o ClosureOps(init)
    \o StatementRows(data)
    \o <<Wr(<<"<tr><td align=\"left\">">>
            \o escape_html(data.terminator.head) \o <<"</td></tr>">>)>>
    \o ClosureOps(fini)
    \o <<Wr(<<"</table>\n">>)>>

\* fn write_node (lines 96-102).
write_node(block, mir) ==
    <<Wr(<<"    ">> \o node(block) \o <<" [shape=\"none\", label=<">>)>>
    \o write_node_label(block, mir, 1, NoRows, NoRows)
    \o <<Wr(<<">];\n">>)>>

\* A plausible slip: the labels are paired with the successors back to front.
ZipReversed(xs, ys) ==
    [i \in 1..Min(Len(xs), Len(ys)) |-> <<xs[i], ys[Len(ys) + 1 - i]>>]

\* A plausible slip: the last successor is left out.
ZipShort(xs, ys) ==
    [i \in 1..(Min(Len(xs), Len(ys)) - 1) |-> <<xs[i], ys[i]>>]

\* Iterator::zip: pairs up to the shorter of the two (line 109).
Zip(xs, ys) ==
    [i \in 1..Min(Len(xs), Len(ys)) |-> <<xs[i], ys[i]>>]

\* fn write_edges (lines 105-114).
write_edges(source, mir) ==
    LET terminator == basic_block_data(mir, source).terminator
        labels == terminator.labels
        pairs == Zip(terminator.successors, labels)
    IN  [i \in 1..Len(pairs) |->
            Wr(<<"    ">> \o node(source) \o <<" -> ">> \o node(pairs[i][1])
               \o <<" [label=\"">> \o pairs[i][2] \o <<"\"];\n">>)]

\* A plausible slip: the separator follows every argument, the last one too.
RECURSIVE ArgOpsTrailingComma(_, _)
ArgOpsTrailingComma(arg_decls, i) ==
    IF i >= Len(arg_decls) THEN <<>>
    ELSE <<Wr(LvalueDebug("arg", i) \o <<": ">> \o escape(arg_decls[i + 1].ty)),
           Wr(<<", ">>)>>
         \o ArgOpsTrailingComma(arg_decls, i + 1)

\* The argument list of the caption (lines 124-129).
RECURSIVE ArgOps(_, _)
ArgOps(arg_decls, i) ==
    IF i >= Len(arg_decls) THEN <<>>
    ELSE (IF i > 0 THEN <<Wr(<<", ">>)>> ELSE <<>>)
         \o <<Wr(LvalueDebug("arg", i) \o <<": ">> \o escape(arg_decls[i + 1].ty))>>
         \o ArgOps(arg_decls, i + 1)

\* A plausible slip: the mut token is written whatever the mutability is.
RECURSIVE VarOpsAlwaysMut(_, _)
VarOpsAlwaysMut(var_decls, i) ==
    IF i >= Len(var_decls) THEN <<>>
    ELSE LET var == var_decls[i + 1] IN
         <<Wr(<<"let ">>), Wr(<<"mut ">>),
           Wr(LvalueDebug("var", i) \o <<": ">> \o escape(var.ty)
              \o <<"; // ">> \o var.name \o <<"<br align=\"left\"/>">>)>>
         \o VarOpsAlwaysMut(var_decls, i + 1)

\* The lines of the named variables (lines 142-149).
RECURSIVE VarOps(_, _)
VarOps(var_decls, i) ==
    IF i >= Len(var_decls) THEN <<>>
    ELSE LET var == var_decls[i + 1] IN
         <<Wr(<<"let ">>)>>
         \o (IF var.mutability = "Mut" THEN <<Wr(<<"mut ">>)>> ELSE <<>>)
         \o <<Wr(LvalueDebug("var", i) \o <<": ">> \o escape(var.ty)
                 \o <<"; // ">> \o var.name \o <<"<br align=\"left\"/>">>)>>
         \o VarOps(var_decls, i + 1)

\* The lines of the temporaries (lines 152-155).
TempOps(temp_decls) ==
    [k \in 1..Len(temp_decls) |->
        Wr(<<"let mut ">> \o LvalueDebug("tmp", k - 1) \o <<": ">>
           \o escape(temp_decls[k].ty) \o <<";<br align=\"left\"/>">>)]

\* fn write_graph_label (lines 119-158).
write_graph_label(t, nid, mir) ==
    <<Wr(<<"    label=<fn ">> \o escape_html(path_to_string(t, nid)) \o <<"(">>)>>
    \o ArgOps(mir.arg_decls, 0)
    \o <<Wr(<<") -&gt; ">>)>>
    \o (IF mir.return_ty.kind = "FnConverging"
        THEN <<Wr(escape(mir.return_ty.ty))>>
        ELSE <<Wr(<<"!">>)>>)
    \o <<Wr(<<"<br align=\"left\"/>">>)>>
    \o VarOps(mir.var_decls, 0)
    \o TempOps(mir.temp_decls)
    \o <<Wr(<<">;\n">>)>>

(***************************************************************************)
(* The sink.  It counts the writes it is handed; the write numbered failAt *)
(* fails, having put a strict prefix of its text (at most `partial`        *)
(* tokens) into the sink.                                                  *)
(***************************************************************************)
Write(s, text) ==
    IF s.writes + 1 = s.failAt
    THEN [w |-> [s EXCEPT !.writes = @ + 1,
                          !.buf = IF Min(s.partial, Len(text) - 1) > 0
                                  THEN Append(@, SubSeq(text, 1, Min(s.partial, Len(text) - 1)))
                                  ELSE @],
          res |-> "Err"]
    ELSE [w |-> [s EXCEPT !.writes = @ + 1, !.buf = Append(@, text)],
          res |-> "Ok"]

Do(op, s) ==
    IF op.kind = "write" THEN Write(s, op.text) ELSE [w |-> s, res |-> "Err"]

RECURSIVE Exec(_, _)

\* A plausible slip: the result of a write is dropped, not propagated.
TryDropped(r, rest) == Exec(rest, r.w)

\* try!: an Err returns at once, an Ok goes on with the rest of the function.
Try(r, rest) == IF r.res = "Err" THEN r ELSE Exec(rest, r.w)

\* The run of a function body on the sink.
Exec(ops, s) ==
    IF ops = <<>> THEN [w |-> s, res |-> "Ok"]
    ELSE Try(Do(Head(ops), s), Tail(ops))

NumWrites(ops) == Len(SelectSeq(ops, LAMBDA op : op.kind = "write"))

\* Where the sink may fail during a run of ops: nowhere (0), or at one of its writes.
FailPoints(s, ops) == IF s.reliable THEN {0} ELSE 0..NumWrites(ops)

Armed(s, k, p) ==
    IF k = 0 THEN s ELSE [s EXCEPT !.failAt = s.writes + k, !.partial = p]

(***************************************************************************)
(* The inputs: MIR graphs as the renderer reads them.  A statement and a   *)
(* type are values with a Debug text; a terminator has its head text, its  *)
(* successors and their labels (index-aligned, of one length).             *)
(***************************************************************************)
Ty1 == [dbg |-> <<"i">>]
Ty2 == [dbg |-> <<"&", "V", "<", "i", ">">>]
TyOf(i) == IF i % 2 = 0 THEN Ty1 ELSE Ty2

StmtA == [dbg |-> <<"a">>]
StmtB == [dbg |-> <<"b", "<", "c">>]
StmtC == [dbg |-> <<"s", "=", "\"", "&", "\"">>]
Statements == {StmtA, StmtB, StmtC}
StmtOf(i) == CASE i % 3 = 1 -> StmtA [] i % 3 = 2 -> StmtB [] OTHER -> StmtC

\* Terminator::fmt_head of each kind.
HeadOf(kind) ==
    CASE kind = "Return" -> <<"return">>
      [] kind = "Goto" -> <<"goto">>
      [] kind = "If" -> <<"if(", "a", "<", "b", ")">>
      [] OTHER -> <<"switchInt(", "\"", "x", "\"", ")">>

\* Terminator::fmt_successor_labels of each kind: one label per successor.
LabelsOf(kind, n) ==
    CASE kind = "Return" -> <<>>
      [] kind = "Goto" -> <<<<>>>>
      [] kind = "If" -> <<<<"true">>, <<"false">>>>
      [] OTHER -> [i \in 1..n |-> IF i = n THEN <<"otherwise">>
                                  ELSE <<"\"", Digits[i], "\"">>]

Arities(kind) ==
    CASE kind = "Return" -> {0}
      [] kind = "Goto" -> {1}
      [] kind = "If" -> {2}
      [] OTHER -> 2..MaxSucc

Term(kind, succ) ==
    [head |-> HeadOf(kind), successors |-> succ, labels |-> LabelsOf(kind, Len(succ))]

\* The terminators of a graph of nb blocks: every successor is a block of the graph.
Terminators(nb) ==
    UNION { UNION { { Term(kind, succ) : succ \in [1..n -> 0..(nb - 1)] }
                    : n \in Arities(kind) }
            : kind \in {"Return", "Goto", "If", "SwitchInt"} }

StmtsOf(n) == [j \in 1..Min(n, MaxStmts) |-> StmtOf(j)]

Block(stmts, term) == [statements |-> stmts, terminator |-> term]

Mir(blocks, args, ret, vs, ts) ==
    [basic_blocks |-> blocks, arg_decls |-> args, return_ty |-> ret,
     var_decls |-> vs, temp_decls |-> ts]

Converging(ty) == [kind |-> "FnConverging", ty |-> ty]
Diverging == [kind |-> "FnDiverging"]

\* Graphs that vary in their blocks: block i holds i statements, block b ends
\* in any terminator, every other block goes to the next one.
BlockMir(nb, b, term) ==
    Mir([i \in 1..nb |->
            Block(StmtsOf(i - 1),
                  IF i - 1 = b THEN term ELSE Term("Goto", <<i % nb>>))],
        <<[ty |-> Ty1]>>, Converging(Ty2),
        <<[ty |-> Ty1, mutability |-> "Mut", name |-> <<"x">>]>>,
        <<[ty |-> Ty2, mutability |-> "Not"]>>)

BlockMirs ==
    UNION { UNION { { BlockMir(nb, b, t) : t \in Terminators(nb) }
                    : b \in 0..(nb - 1) }
            : nb \in 1..MaxBlocks }

\* Two blocks: a conditional branch to blocks 0 and 1, and a return.
BranchMir ==
    Mir(<<Block(<<StmtA>>, Term("If", <<0, 1>>)), Block(<<>>, Term("Return", <<>>))>>,
        <<>>, Diverging, <<>>, <<>>)

\* The NodeId of the i-th pair of the iteration.
NodeIdOf(i) == 8 + i

SeqsUpTo(S, n) == UNION { [1..m -> S] : m \in 0..n }

\* Sequences of pairs: copies of BranchMir, then one graph of BlockMirs.
BlockIters ==
    {<<>>} \cup
    UNION { { [i \in 1..n |-> [nodeid |-> NodeIdOf(i),
                               mir |-> IF i = n THEN m ELSE BranchMir]]
              : m \in BlockMirs }
            : n \in 1..MaxGraphs }

Mutabilities == {"Mut", "Not"}
Names == {<<"x">>, <<"<", "y", ">">>}
VarDecls == [ty : {Ty2}, mutability : Mutabilities, name : Names]
ReturnTys == {Diverging, Converging(Ty1), Converging(Ty2)}
PathNames == {<<"f">>, <<"<", "T", ">", "::", "f">>}

\* Graphs that vary in their declarations: one block that goes to itself.
\* The types of the arguments and of the temporaries alternate.
DeclMirs ==
    { Mir(<<Block(<<StmtA>>, Term("Goto", <<0>>))>>,
          [i \in 1..na |-> [ty |-> TyOf(i)]], ret, vs,
          [i \in 1..Len(ms) |-> [ty |-> TyOf(i), mutability |-> ms[i]]])
      : na \in 0..MaxArgs, ret \in ReturnTys,
        vs \in SeqsUpTo(VarDecls, MaxVars), ms \in SeqsUpTo(Mutabilities, MaxTemps) }

Sink(reliable) ==
    [buf |-> <<>>, writes |-> 0, failAt |-> 0, partial |-> 0, reliable |-> reliable]

NoCall == [block |-> 0, num_cols |-> 0, init |-> NoRows, fini |-> NoRows]
NoEsc == [t |-> Ty1, r1 |-> <<>>, r2 |-> <<>>, n |-> 0]

\* write_mir_graphviz is called with a sink that may fail at any write.
Init ==
    /\ iter \in BlockIters
    /\ tcx = [n \in {NodeIdOf(i) : i \in 1..MaxGraphs} |-> <<"m", "::", "f">>]
    /\ w = Sink(FALSE)
    /\ pc = "iter" /\ gi = 0 /\ bi = 0 /\ result = "none"
    /\ call = NoCall /\ esc = NoEsc

\* write_mir_graphviz is called on one graph with a sink that does not fail.
InitCaption ==
    /\ \E m \in DeclMirs : iter = <<[nodeid |-> NodeIdOf(1), mir |-> m]>>
    /\ \E name \in PathNames : tcx = [n \in {NodeIdOf(1)} |-> name]
    /\ w = Sink(TRUE)
    /\ pc = "iter" /\ gi = 0 /\ bi = 0 /\ result = "none"
    /\ call = NoCall /\ esc = NoEsc

(***************************************************************************)
(* write_mir_graphviz (lines 19-44), one action per statement of its body. *)
(***************************************************************************)
nodeid == iter[gi].nodeid
mir == iter[gi].mir

\* A statement try!(f(.., w)): the callee runs on the sink; an Err returns it.
Run(ops, pcOk, biOk) ==
    \E k \in FailPoints(w, ops), p \in 0..MaxPartial :
        LET r == Exec(ops, Armed(w, k, p)) IN
        /\ w' = r.w
        /\ IF r.res = "Ok"
           THEN pc' = pcOk /\ bi' = biOk /\ result' = result
           ELSE pc' = "returned" /\ bi' = bi /\ result' = "Err"
        /\ UNCHANGED <<tcx, iter, gi, call, esc>>

\* for (&nodeid, mir) in iter (line 21): the next pair.
NextPair ==
    /\ pc = "iter" /\ gi < Len(iter)
    /\ gi' = gi + 1 /\ pc' = "header"
    /\ UNCHANGED <<tcx, iter, w, bi, result, call, esc>>

\* Ok(()) (line 43): the iterator is exhausted.
ReturnOk ==
    /\ pc = "iter" /\ gi = Len(iter)
    /\ result' = "Ok" /\ pc' = "returned"
    /\ UNCHANGED <<tcx, iter, w, gi, bi, call, esc>>

\* Line 22.
WriteHeader ==
    /\ pc = "header"
    /\ Run(<<Wr(<<"digraph Mir_">> \o Dec(nodeid) \o <<" {\n">>)>>, "graph_style", bi)

\* Line 25.
WriteGraphStyle ==
    /\ pc = "graph_style"
    /\ Run(<<Wr(<<"    graph [fontname=\"monospace\"];\n">>)>>, "node_style", bi)

\* Line 26.
WriteNodeStyle ==
    /\ pc = "node_style"
    /\ Run(<<Wr(<<"    node [fontname=\"monospace\"];\n">>)>>, "edge_style", bi)

\* Line 27.
WriteEdgeStyle ==
    /\ pc = "edge_style"
    /\ Run(<<Wr(<<"    edge [fontname=\"monospace\"];\n">>)>>, "graph_label", bi)

\* Line 30.
WriteGraphLabel ==
    /\ pc = "graph_label"
    /\ Run(write_graph_label(tcx, nodeid, mir), "nodes", 0)

\* A plausible slip: one loop over the blocks writes the node of a block and
\* its edges together.
WriteNodeAndEdges ==
    /\ pc = "nodes" /\ bi < Len(all_basic_blocks(mir))
    /\ Run(write_node(all_basic_blocks(mir)[bi + 1], mir)
              \o write_edges(all_basic_blocks(mir)[bi + 1], mir),
           IF bi + 1 = Len(all_basic_blocks(mir)) THEN "footer" ELSE "nodes",
           bi + 1)

\* Lines 33-35: the node of the next block.
WriteNode ==
    /\ pc = "nodes" /\ bi < Len(all_basic_blocks(mir))
    /\ Run(write_node(all_basic_blocks(mir)[bi + 1], mir), "nodes", bi + 1)

\* Line 33: the loop over the blocks ends.
NodesDone ==
    /\ pc = "nodes" /\ bi = Len(all_basic_blocks(mir))
    /\ pc' = "edges" /\ bi' = 0
    /\ UNCHANGED <<tcx, iter, w, gi, result, call, esc>>

\* Lines 38-40: the edges of the next block.
WriteEdges ==
    /\ pc = "edges" /\ bi < Len(all_basic_blocks(mir))
    /\ Run(write_edges(all_basic_blocks(mir)[bi + 1], mir), "edges", bi + 1)

\* Line 38: the loop over the blocks ends.
EdgesDone ==
    /\ pc = "edges" /\ bi = Len(all_basic_blocks(mir))
    /\ pc' = "footer" /\ bi' = 0
    /\ UNCHANGED <<tcx, iter, w, gi, result, call, esc>>

\* Line 41.
WriteFooter ==
    /\ pc = "footer"
    /\ Run(<<Wr(<<"}\n">>)>>, "iter", bi)

Next ==
    \/ NextPair
    \/ ReturnOk
    \/ WriteHeader
    \/ WriteGraphStyle
    \/ WriteNodeStyle
    \/ WriteEdgeStyle
    \/ WriteGraphLabel
    \/ WriteNode
    \/ NodesDone
    \/ WriteEdges
    \/ EdgesDone
    \/ WriteFooter

Spec == Init /\ [][Next]_vars

SpecCaption == InitCaption /\ [][Next]_vars

(***************************************************************************)
(* A direct call of the public write_node_label (lines 53-93) by a caller  *)
(* that injects rows with its own init and fini closures.                  *)
(***************************************************************************)
RowX == <<"<tr><td>", "X", "</td></tr>">>
RowY == <<"<tr><td>", "Y", "</td></tr>">>

\* The caller's closures: no row, one row, two rows, or a row and an Err of its own.
Closures ==
    {NoRows,
     [rows |-> <<RowX>>, ret |-> "Ok"],
     [rows |-> <<RowY, RowX>>, ret |-> "Ok"],
     [rows |-> <<RowY>>, ret |-> "Err"]}

\* Two blocks: the block under the call, and a return.
LabelMir(blk, stmts, term) ==
    Mir([i \in 1..2 |-> IF i - 1 = blk THEN Block(stmts, term)
                        ELSE Block(<<>>, Term("Return", <<>>))],
        <<>>, Diverging, <<>>, <<>>)

InitLabel ==
    /\ \E blk \in {0, 1}, stmts \in SeqsUpTo(Statements, MaxStmts),
          term \in {Term("Return", <<>>), Term("If", <<0, 1>>)},
          cols \in {1, 12}, init \in Closures, fini \in Closures :
        /\ iter = <<[nodeid |-> NodeIdOf(1), mir |-> LabelMir(blk, stmts, term)]>>
        /\ call = [block |-> blk, num_cols |-> cols, init |-> init, fini |-> fini]
    /\ tcx = [n \in {NodeIdOf(1)} |-> <<"f">>]
    /\ w = Sink(FALSE)
    /\ pc = "write_node_label" /\ gi = 1 /\ bi = 0 /\ result = "none"
    /\ esc = NoEsc

\* The whole call: the rows in order, up to the first Err.
CallWriteNodeLabel ==
    /\ pc = "write_node_label"
    /\ LET ops == write_node_label(call.block, mir, call.num_cols, call.init, call.fini) IN
       \E k \in FailPoints(w, ops), p \in 0..MaxPartial :
           LET r == Exec(ops, Armed(w, k, p)) IN
           /\ w' = r.w
           /\ result' = r.res
           /\ pc' = "returned"
    /\ UNCHANGED <<tcx, iter, gi, bi, call, esc>>

NextLabel == CallWriteNodeLabel

SpecLabel == InitLabel /\ [][NextLabel]_vars

(***************************************************************************)
(* The escaper alone (lines 164-166): a value is escaped, then a value     *)
(* whose Debug text is that escaped text is escaped in turn.               *)
(***************************************************************************)
Chars == {"a", "&", "<", ">", "\"", ";"}

InitEscape ==
    /\ \E s \in SeqsUpTo(Chars, MaxLen) :
        esc = [t |-> [dbg |-> s], r1 |-> <<>>, r2 |-> <<>>, n |-> 0]
    /\ tcx = [n \in {NodeIdOf(1)} |-> <<"f">>]
    /\ iter = <<>>
    /\ w = Sink(TRUE)
    /\ pc = "escape" /\ gi = 0 /\ bi = 0 /\ result = "none"
    /\ call = NoCall

EscapeValue ==
    /\ pc = "escape" /\ esc.n = 0
    /\ esc' = [esc EXCEPT !.r1 = escape(esc.t), !.n = 1]
    /\ UNCHANGED <<tcx, iter, w, pc, gi, bi, result, call>>

EscapeAgain ==
    /\ pc = "escape" /\ esc.n = 1
    /\ esc' = [esc EXCEPT !.r2 = escape([dbg |-> esc.r1]), !.n = 2]
    /\ UNCHANGED <<tcx, iter, w, pc, gi, bi, result, call>>

NextEscape ==
    \/ EscapeValue
    \/ EscapeAgain

SpecEscape == InitEscape /\ [][NextEscape]_vars

(***************************************************************************)
(* Reading the sink: the vocabulary of the properties.                     *)
(***************************************************************************)
IsPrefix(a, b) == Len(a) <= Len(b) /\ SubSeq(b, 1, Len(a)) = a

Texts(ops) == [i \in 1..Len(ops) |-> ops[i].text]

\* The indices of the writes of buf that satisfy P, in order.
Idx(buf, P(_)) == SelectSeq([i \in 1..Len(buf) |-> i], LAMBDA i : P(buf[i]))

\* The first index of token tok in write wr (0 when absent).
Pos(wr, tok) ==
    IF \E i \in 1..Len(wr) : wr[i] = tok
    THEN CHOOSE i \in 1..Len(wr) : wr[i] = tok /\ \A j \in 1..(i - 1) : wr[j] # tok
    ELSE 0

\* A number below 100 in decimal.
Numeral(n) ==
    IF n < 10 THEN <<Digits[n + 1]>>
    ELSE <<Digits[(n \div 10) + 1], Digits[(n % 10) + 1]>>

IsHeader(wr) == wr # <<>> /\ wr[1] = "digraph Mir_"
IsFooter(wr) == wr = <<"}\n">>
IsCaptionStart(wr) == wr # <<>> /\ wr[1] = "    label=<fn "
IsCaptionEnd(wr) == wr = <<">;\n">>
IsNodeOpen(wr) == wr # <<>> /\ wr[Len(wr)] = " [shape=\"none\", label=<"
IsNodeClose(wr) == wr = <<">];\n">>
IsEdge(wr) == wr # <<>> /\ wr[Len(wr)] = "\"];\n" /\ Pos(wr, " -> ") > 0

\* The identifier a node declaration declares, and the ends and label of an edge.
NodeName(wr) == SubSeq(wr, 2, Len(wr) - 1)
EdgeSource(wr) == SubSeq(wr, 2, Pos(wr, " -> ") - 1)
EdgeTarget(wr) == SubSeq(wr, Pos(wr, " -> ") + 1, Pos(wr, " [label=\"") - 1)
EdgeLabel(wr) == SubSeq(wr, Pos(wr, " [label=\"") + 1, Len(wr) - 1)

\* The writes of the g-th graph of a sink: from its header to its footer.
Graph(buf, g) == SubSeq(buf, Idx(buf, IsHeader)[g], Idx(buf, IsFooter)[g])

\* A sink that holds one complete graph per pair.
Complete(buf, it) ==
    /\ Len(Idx(buf, IsHeader)) = Len(it)
    /\ Len(Idx(buf, IsFooter)) = Len(it)
    /\ \A g \in 1..Len(it) : Idx(buf, IsHeader)[g] < Idx(buf, IsFooter)[g]

\* The writes a run of write_mir_graphviz makes on a sink that never fails.
RECURSIVE BlockWrites(_, _, _)
BlockWrites(F(_, _), m, b) ==
    IF b >= Len(m.basic_blocks) THEN <<>>
    ELSE Texts(F(b, m)) \o BlockWrites(F, m, b + 1)

PairWrites(t, pair) ==
    <<<<"digraph Mir_">> \o Numeral(pair.nodeid) \o <<" {\n">>,
      <<"    graph [fontname=\"monospace\"];\n">>,
      <<"    node [fontname=\"monospace\"];\n">>,
      <<"    edge [fontname=\"monospace\"];\n">>>>
    \o Texts(write_graph_label(t, pair.nodeid, pair.mir))
    \o BlockWrites(write_node, pair.mir, 0)
    \o BlockWrites(write_edges, pair.mir, 0)
    \o <<<<"}\n">>>>

RECURSIVE Unfailing(_, _, _)
Unfailing(t, it, g) ==
    IF g > Len(it) THEN <<>> ELSE PairWrites(t, it[g]) \o Unfailing(t, it, g + 1)

(***************************************************************************)
(* The state of the sink and of the call against `full`, the writes of the *)
(* run that never fails.                                                   *)
(***************************************************************************)
FailFastAgainst(full) ==
    /\ w.failAt = 0 =>
        /\ result # "Err"
        /\ w.writes <= Len(full)
        /\ w.buf = SubSeq(full, 1, w.writes)
    /\ w.failAt > 0 =>
        /\ result = "Err" /\ pc = "returned"
        /\ w.writes = w.failAt
        /\ w.failAt <= Len(full)
        /\ SubSeq(w.buf, 1, w.failAt - 1) = SubSeq(full, 1, w.failAt - 1)
        /\ Len(w.buf) \in {w.failAt - 1, w.failAt}
        /\ Len(w.buf) = w.failAt =>
            /\ IsPrefix(w.buf[w.failAt], full[w.failAt])
            /\ w.buf[w.failAt] # full[w.failAt]
    /\ result = "Ok" => gi = Len(iter) /\ w.buf = full
    /\ pc = "returned" <=> result # "none"

(***************************************************************************)
(* C1: write_mir_graphviz is fail-fast.  While no write has failed the     *)
(* sink holds the first writes of the run that never fails and no Err is   *)
(* returned; once the write numbered failAt has failed, the call has       *)
(* returned Err, no further write was attempted, and the sink holds the    *)
(* writes before the failing one unchanged, followed by at most a strict   *)
(* prefix of the failing write; Ok is returned only with the whole output. *)
(* (The pairs after the gi-th have not been taken from the iterator: the   *)
(* run that never fails is compared up to the end of the gi-th pair.)      *)
(***************************************************************************)
C1_FailFast == FailFastAgainst(Unfailing(tcx, SubSeq(iter, 1, gi), 1))

\* A write inside the first of two graphs failed after part of it was written.
C1_Witness ==
    /\ result = "Err" /\ pc = "returned"
    /\ Len(iter) = 2 /\ gi = 1
    /\ w.failAt > 4 /\ Len(w.buf) = w.failAt
    /\ \E i \in 1..Len(w.buf) : IsEdge(w.buf[i])

RECURSIVE Concat(_)
Concat(ss) == IF ss = <<>> THEN <<>> ELSE Head(ss) \o Concat(Tail(ss))

Ev(kind, id) == [kind |-> kind, id |-> id]

\* What a write opens, closes or declares; "text" for a write inside a caption or a label.
Event(wr) ==
    CASE IsHeader(wr) -> Ev("header", SubSeq(wr, 2, Len(wr) - 1))
      [] wr = <<"    graph [fontname=\"monospace\"];\n">> -> Ev("graph_font", <<>>)
      [] wr = <<"    node [fontname=\"monospace\"];\n">> -> Ev("node_font", <<>>)
      [] wr = <<"    edge [fontname=\"monospace\"];\n">> -> Ev("edge_font", <<>>)
      [] IsCaptionStart(wr) -> Ev("caption", <<>>)
      [] IsCaptionEnd(wr) -> Ev("caption_end", <<>>)
      [] IsNodeOpen(wr) -> Ev("node", NodeName(wr))
      [] IsNodeClose(wr) -> Ev("node_end", <<>>)
      [] IsEdge(wr) -> Ev("edge", EdgeSource(wr))
      [] IsFooter(wr) -> Ev("footer", <<>>)
      [] OTHER -> Ev("text", <<>>)

Outline(buf) ==
    SelectSeq([i \in 1..Len(buf) |-> Event(buf[i])], LAMBDA e : e.kind # "text")

\* The outline the claim gives for one pair.
PairOutline(pair) ==
    LET blocks == pair.mir.basic_blocks IN
    <<Ev("header", Numeral(pair.nodeid)), Ev("graph_font", <<>>),
      Ev("node_font", <<>>), Ev("edge_font", <<>>),
      Ev("caption", <<>>), Ev("caption_end", <<>>)>>
    \o Concat([b \in 1..Len(blocks) |->
                <<Ev("node", <<"bb">> \o Numeral(b - 1)), Ev("node_end", <<>>)>>])
    \o Concat([b \in 1..Len(blocks) |->
                [i \in 1..Len(blocks[b].terminator.successors) |->
                    Ev("edge", <<"bb">> \o Numeral(b - 1))]])
    \o <<Ev("footer", <<>>)>>

(***************************************************************************)
(* C2: when no write fails, the output of each pair is, in this order: the *)
(* header, the three font directives, the caption, one node declaration    *)
(* per block in increasing block index, then the edges of each block in    *)
(* increasing block index, then the footer; and the pairs follow one       *)
(* another in the order of the iteration, each complete before the next.   *)
(***************************************************************************)
C2_OutputOrder ==
    result = "Ok" =>
        Outline(w.buf) = Concat([g \in 1..Len(iter) |-> PairOutline(iter[g])])

\* Two graphs were written, one of them with edges out of both of its two blocks.
C2_Witness ==
    /\ result = "Ok" /\ Len(iter) = 2
    /\ \E g \in 1..2 :
        /\ Len(iter[g].mir.basic_blocks) = 2
        /\ \A b \in 1..2 : iter[g].mir.basic_blocks[b].terminator.successors # <<>>

\* The edges of a graph as block indices <<source, target>>, block by block.
EdgeEnds(m) ==
    Concat([b \in 1..Len(m.basic_blocks) |->
              [i \in 1..Len(m.basic_blocks[b].terminator.successors) |->
                  <<b - 1, m.basic_blocks[b].terminator.successors[i]>>]])

(***************************************************************************)
(* C3: when no write fails, the output of a graph of B blocks holds        *)
(* exactly B node declarations, their identifiers are pairwise distinct,   *)
(* the identifier of block i is "bb" followed by i, and every edge names   *)
(* its source and its target by the identifier their declarations carry.   *)
(***************************************************************************)
C3_NodeIdentifiers ==
    result = "Ok" =>
        /\ Complete(w.buf, iter)
        /\ \A g \in 1..Len(iter) :
            LET m == iter[g].mir
                B == Len(m.basic_blocks)
                opens == SelectSeq(Graph(w.buf, g), IsNodeOpen)
                edges == SelectSeq(Graph(w.buf, g), IsEdge)
                ends == EdgeEnds(m)
            IN  /\ Len(opens) = B
                /\ \A i \in 1..B : NodeName(opens[i]) = <<"bb">> \o Numeral(i - 1)
                /\ \A i, j \in 1..B : i # j => NodeName(opens[i]) # NodeName(opens[j])
                /\ Len(edges) = Len(ends)
                /\ \A k \in 1..Len(edges) :
                    /\ EdgeSource(edges[k]) = NodeName(opens[ends[k][1] + 1])
                    /\ EdgeTarget(edges[k]) = NodeName(opens[ends[k][2] + 1])

\* A graph of two blocks was written, with an edge from block 0 to block 1.
C3_Witness ==
    /\ result = "Ok"
    /\ \E g \in 1..Len(iter) :
        /\ Len(iter[g].mir.basic_blocks) = 2
        /\ \E k \in 1..Len(EdgeEnds(iter[g].mir)) : EdgeEnds(iter[g].mir)[k] = <<0, 1>>
        /\ \E k \in 1..Len(EdgeEnds(iter[g].mir)) : EdgeEnds(iter[g].mir)[k] = <<1, 0>>

RECURSIVE SuccessorCount(_, _)
SuccessorCount(blocks, b) ==
    IF b > Len(blocks) THEN 0
    ELSE Len(blocks[b].terminator.successors) + SuccessorCount(blocks, b + 1)

(***************************************************************************)
(* C4: when no write fails, the number of edge declarations of a graph is  *)
(* the sum over its blocks of the number of successors of the block's      *)
(* terminator, and each block is the source of as many edges as it has     *)
(* successors: none for a terminator without successors.                   *)
(***************************************************************************)
C4_EdgeCount ==
    result = "Ok" =>
        /\ Complete(w.buf, iter)
        /\ \A g \in 1..Len(iter) :
            LET blocks == iter[g].mir.basic_blocks
                edges == SelectSeq(Graph(w.buf, g), IsEdge)
            IN  /\ Len(edges) = SuccessorCount(blocks, 1)
                /\ \A b \in 1..Len(blocks) :
                    Len(SelectSeq(edges, LAMBDA e : EdgeSource(e) = <<"bb">> \o Numeral(b - 1)))
                        = Len(blocks[b].terminator.successors)

\* A graph was written in which one block has two successors and another has none.
C4_Witness ==
    /\ result = "Ok"
    /\ \E g \in 1..Len(iter) :
        LET blocks == iter[g].mir.basic_blocks IN
        /\ \E b \in 1..Len(blocks) : Len(blocks[b].terminator.successors) = 2
        /\ \E b \in 1..Len(blocks) : Len(blocks[b].terminator.successors) = 0
        /\ \E i \in 1..Len(w.buf) : IsEdge(w.buf[i])

(***************************************************************************)
(* C10: when no write fails, the edges of a source block are written in    *)
(* the order of its terminator's successors: the i-th goes from the        *)
(* source's identifier to the identifier of successor[i] and carries       *)
(* label[i] as it is, not escaped and not the label of another successor.  *)
(***************************************************************************)
C10_EdgeLabels ==
    result = "Ok" =>
        /\ Complete(w.buf, iter)
        /\ \A g \in 1..Len(iter) :
            LET blocks == iter[g].mir.basic_blocks
                edges == SelectSeq(Graph(w.buf, g), IsEdge)
            IN  \A b \in 1..Len(blocks) :
                    LET t == blocks[b].terminator
                        mine == SelectSeq(edges,
                                    LAMBDA e : EdgeSource(e) = <<"bb">> \o Numeral(b - 1))
                    IN  mine = [i \in 1..Len(t.successors) |->
                                  <<"    ", "bb">> \o Numeral(b - 1) \o <<" -> ", "bb">>
                                  \o Numeral(t.successors[i]) \o <<" [label=\"">>
                                  \o t.labels[i] \o <<"\"];\n">>]

\* A block with two successors, to different blocks and under different labels
\* that hold a quote, had its edges written.
C10_Witness ==
    /\ result = "Ok"
    /\ \E g \in 1..Len(iter) :
        \E b \in 1..Len(iter[g].mir.basic_blocks) :
            LET t == iter[g].mir.basic_blocks[b].terminator IN
            /\ Len(t.successors) = 2
            /\ t.successors[1] # t.successors[2]
            /\ t.labels[1] # t.labels[2]
            /\ \E j \in 1..Len(t.labels[1]) : t.labels[1][j] = "\""
    /\ \E i \in 1..Len(w.buf) : IsEdge(w.buf[i]) /\ EdgeLabel(w.buf[i]) = <<"otherwise">>

\* The writes of the caption of the first graph, between its opening and its closing write.
Caption(buf) ==
    SubSeq(buf, Idx(buf, IsCaptionStart)[1] + 1, Idx(buf, IsCaptionEnd)[1] - 1)

IsArg(wr) == wr # <<>> /\ wr[1] = "arg"
IsVar(wr) == wr # <<>> /\ wr[1] = "var"
IsTemp(wr) == Pos(wr, "tmp") > 0
IsMut(wr) == wr = <<"mut ">>
IsLet(wr) == wr = <<"let ">>

ArgEntry(i, d) == <<"arg">> \o Numeral(i) \o <<": ">> \o escape_html(d.ty.dbg)
VarEntry(i, d) ==
    <<"var">> \o Numeral(i) \o <<": ">> \o escape_html(d.ty.dbg)
    \o <<"; // ">> \o d.name \o <<"<br align=\"left\"/>">>
TempEntry(i, d) ==
    <<"let mut ", "tmp">> \o Numeral(i) \o <<": ">> \o escape_html(d.ty.dbg)
    \o <<";<br align=\"left\"/>">>

(***************************************************************************)
(* C8: when no write fails, the entries of the caption are the arguments   *)
(* in declaration order, then the named variables in declaration order,    *)
(* then the temporaries in declaration order; and what stands between the  *)
(* opening parenthesis and the closing one is the arguments with one ", "  *)
(* between two of them, none before the first and none after the last.     *)
(***************************************************************************)
C8_CaptionOrder ==
    result = "Ok" /\ Len(iter) = 1 =>
        LET m == iter[1].mir
            cap == Caption(w.buf)
            close == Idx(cap, LAMBDA wr : wr = <<") -&gt; ">>)
            na == Len(m.arg_decls)
        IN  /\ SelectSeq(cap, LAMBDA wr : IsArg(wr) \/ IsVar(wr) \/ IsTemp(wr))
                = [i \in 1..na |-> ArgEntry(i - 1, m.arg_decls[i])]
                  \o [i \in 1..Len(m.var_decls) |-> VarEntry(i - 1, m.var_decls[i])]
                  \o [i \in 1..Len(m.temp_decls) |-> TempEntry(i - 1, m.temp_decls[i])]
            /\ Len(close) = 1
            /\ SubSeq(cap, 1, close[1] - 1)
                = [j \in 1..(IF na = 0 THEN 0 ELSE 2 * na - 1) |->
                      IF j % 2 = 1 THEN ArgEntry(j \div 2, m.arg_decls[(j \div 2) + 1])
                      ELSE <<", ">>]

\* A caption with two arguments of different types, two variables and two temporaries.
C8_Witness ==
    /\ result = "Ok" /\ Len(iter) = 1
    /\ Len(iter[1].mir.arg_decls) = 2
    /\ iter[1].mir.arg_decls[1] # iter[1].mir.arg_decls[2]
    /\ Len(iter[1].mir.var_decls) = 2
    /\ iter[1].mir.var_decls[1].name # iter[1].mir.var_decls[2].name
    /\ Len(iter[1].mir.temp_decls) = 2
    /\ iter[1].mir.temp_decls[1].ty # iter[1].mir.temp_decls[2].ty
    /\ Len(SelectSeq(Caption(w.buf), LAMBDA wr : wr = <<", ">>)) = 1

(***************************************************************************)
(* C9: when no write fails, the line of a named variable is "let ", then   *)
(* "mut " if and only if the declaration is mutable, then the slot, the    *)
(* type and, at its end, the comment with the source name; the line of a   *)
(* temporary starts with "let mut " whatever its mutability flag is and    *)
(* has no name comment.                                                    *)
(***************************************************************************)
C9_Mutability ==
    result = "Ok" /\ Len(iter) = 1 =>
        LET m == iter[1].mir
            cap == Caption(w.buf)
            vs == Idx(cap, IsVar)
            ts == Idx(cap, IsTemp)
        IN  /\ Len(vs) = Len(m.var_decls)
            /\ \A k \in 1..Len(vs) :
                LET d == m.var_decls[k]
                    wr == cap[vs[k]]
                IN  /\ IsMut(cap[vs[k] - 1]) <=> d.mutability = "Mut"
                    /\ IsLet(cap[vs[k] - (IF d.mutability = "Mut" THEN 2 ELSE 1)])
                    /\ Pos(wr, "; // ") > 0
                    /\ SubSeq(wr, Pos(wr, "; // "), Len(wr))
                        = <<"; // ">> \o d.name \o <<"<br align=\"left\"/>">>
            /\ Len(Idx(cap, IsMut)) = Len(SelectSeq(m.var_decls, LAMBDA d : d.mutability = "Mut"))
            /\ Len(Idx(cap, IsLet)) = Len(m.var_decls)
            /\ Len(ts) = Len(m.temp_decls)
            /\ \A k \in 1..Len(ts) :
                LET wr == cap[ts[k]] IN
                /\ wr[1] = "let mut "
                /\ Pos(wr, "; // ") = 0
                /\ wr[Len(wr)] = ";<br align=\"left\"/>"

\* A caption with a mutable and an immutable variable, and with a temporary
\* whose own flag is not set.
C9_Witness ==
    /\ result = "Ok" /\ Len(iter) = 1
    /\ \E k \in 1..Len(iter[1].mir.var_decls) : iter[1].mir.var_decls[k].mutability = "Mut"
    /\ \E k \in 1..Len(iter[1].mir.var_decls) : iter[1].mir.var_decls[k].mutability = "Not"
    /\ \E k \in 1..Len(iter[1].mir.temp_decls) : iter[1].mir.temp_decls[k].mutability = "Not"
    /\ \E i \in 1..Len(w.buf) : IsTemp(w.buf[i])

Entities ==
    {<<"&", "a", "m", "p", ";">>, <<"&", "q", "u", "o", "t", ";">>,
     <<"&", "l", "t", ";">>, <<"&", "g", "t", ";">>}

Special == {"<", ">", "&", "\""}

HasSpecial(text) == \E j \in 1..Len(text) : text[j] \in Special

\* No angle bracket and no quote, and every ampersand opens an entity.
Escaped(text) ==
    \A j \in 1..Len(text) :
        /\ text[j] \notin {"<", ">", "\""}
        /\ text[j] = "&" =>
            \E e \in Entities :
                /\ j + Len(e) - 1 <= Len(text)
                /\ SubSeq(text, j, j + Len(e) - 1) = e

\* Write i of buf lies in a part that Open opens and Close closes.
Within(buf, i, Open(_), Close(_)) ==
    \E a \in 1..i : Open(buf[a]) /\ \A j \in a..(i - 1) : ~Close(buf[j])

(***************************************************************************)
(* C6: no write of a caption or of a node label holds an unescaped angle   *)
(* bracket, ampersand or quote: all input-derived text in them, the source *)
(* names of the named variables included, went through the escaper.        *)
(***************************************************************************)
C6_AllEscaped ==
    \A i \in 1..Len(w.buf) :
        (\/ Within(w.buf, i, IsCaptionStart, IsCaptionEnd)
         \/ Within(w.buf, i, IsNodeOpen, IsNodeClose))
            => Escaped(w.buf[i])

\* The same of everything but the name comment of a variable's line: this holds.
C6_AllEscapedButVarNames ==
    \A i \in 1..Len(w.buf) :
        (\/ Within(w.buf, i, IsCaptionStart, IsCaptionEnd)
         \/ Within(w.buf, i, IsNodeOpen, IsNodeClose))
            => Escaped(IF IsVar(w.buf[i])
                       THEN SubSeq(w.buf[i], 1, Pos(w.buf[i], "; // "))
                       ELSE w.buf[i])

(***************************************************************************)
(* C5: when neither a write nor a callback fails, write_node_label writes, *)
(* in this order: the opening of the table, the header row with the column *)
(* count and the block index, the rows of init, the statement row, the     *)
(* terminator row, the rows of fini, the closing of the table; the         *)
(* statement row is there if and only if the block has a statement, and    *)
(* is one row that holds every statement, escaped, in the block's order.   *)
(***************************************************************************)
C5_RowOrder ==
    result = "Ok" /\ pc = "returned" /\ call # NoCall =>
        LET data == iter[1].mir.basic_blocks[call.block + 1]
            n == Len(data.statements)
        IN  /\ call.init.ret = "Ok" /\ call.fini.ret = "Ok"
            /\ w.buf =
                <<<<"<table border=\"0\" cellborder=\"1\" cellspacing=\"0\">">>,
                  <<"<tr><td ", "bgcolor=\"gray\" align=\"center\"", " colspan=\"">>
                  \o Numeral(call.num_cols) \o <<"\">">> \o Numeral(call.block)
                  \o <<"</td></tr>">>>>
                \o call.init.rows
                \o (IF n > 0
                    THEN <<<<"<tr><td align=\"left\" balign=\"left\">">>>>
                         \o [k \in 1..n |->
                               escape_html(data.statements[k].dbg) \o <<"<br/>">>]
                         \o <<<<"</td></tr>">>>>
                    ELSE <<>>)
                \o <<<<"<tr><td align=\"left\">">> \o escape_html(data.terminator.head)
                     \o <<"</td></tr>">>>>
                \o call.fini.rows
                \o <<<<"</table>\n">>>>

\* A label of two different statements between two rows of init and one of fini.
C5_Witness ==
    /\ result = "Ok" /\ pc = "returned"
    /\ call.init.rows = <<RowY, RowX>> /\ call.fini.rows = <<RowX>>
    /\ call.block = 1 /\ call.num_cols = 12
    /\ Len(iter[1].mir.basic_blocks[2].statements) = 2
    /\ iter[1].mir.basic_blocks[2].statements[1] # iter[1].mir.basic_blocks[2].statements[2]
    /\ Len(w.buf) = 11

====
